---- MODULE Spec2Model ----
(***************************************************************************)
(* Page Interaction Controller of the portfolio site.                      *)
(*                                                                         *)
(* src/assets/js/main.js wires five behaviours inside one DOMContentLoaded *)
(* handler: mobile menu toggle, anchor smooth-scroll, scroll animation,    *)
(* active-section highlighting and the persisted light/dark theme.         *)
(* src/assets/main.js is a second script of the repository that wires only *)
(* a hamburger handler.  A page loads one of the two scripts.              *)
(*                                                                         *)
(* The browser runs every handler to completion on the main thread, so     *)
(* each handler is one action.  Page markup, the browser's capabilities    *)
(* and the content of localStorage found at load are chosen in Init.       *)
(* Hash links carry href "#" followed by an identifier; the identifier may *)
(* or may not be the id of an element of the page.                         *)
(***************************************************************************)
EXTENDS Integers, Sequences, FiniteSets, TLC

\* ---------------------------------------------------------------- bounds
MaxToggles == 2
MaxEntries == 2
MaxNav == 2
MaxScrollEvents == 3
MaxHeightSteps == 12

\* ------------------------------------------------------------- constants
\* getItem/getAttribute return null for a missing key/attribute
Null == "<null>"
MainJs == "assets/js/main.js"
LegacyJs == "assets/main.js"

\* ids of the elements matching .section[id]
SectionIds == {"about", "resume"}
\* ids of all elements of the page (the sections and the page header)
ElementIds == SectionIds \cup {"hero"}
\* fragments used by the links of the sidebar nav
NavFragments == {"about", "resume"}
\* values localStorage may hold under 'portfolio-theme' when the page loads
StoredAtLoad == {Null, "", "light", "dark", "blue"}
\* the data-theme attribute of <html> in the markup (Null: not set)
MarkupThemes == {Null, "dark"}
\* window.matchMedia: missing, or its .matches for (prefers-color-scheme: dark)
OsPreferences == {"unsupported", "dark", "no-preference"}

\* the elements matching .animate-on-scroll
AnimatedElements == {"card1", "card2"}
\* viewport heights in CSS pixels
ViewportHeights == {10 * k : k \in 1..MaxHeightSteps}

HamburgerIcon == "&#9776;"
TimesIcon == "&times;"

VARIABLES
    script,           \* which script of the repository the page loads
    hasSidebar,       \* document.getElementById('sidebar') is not null
    hasHamburger,     \* document.getElementById('hamburger-toggle') is not null
    hasThemeToggle,   \* document.getElementById('theme-toggle') is not null
    hasIO,            \* the browser defines IntersectionObserver
    osPreference,     \* what window.matchMedia reports
    anchors,          \* the a[href^="#"] elements in document order
    pc,               \* "loading" before DOMContentLoaded, "ready" after
    wired,            \* features whose listeners/observers are registered
    logged,           \* console.error was called by the top-level catch
    sidebarActive,    \* sidebar.classList.contains('active')
    hamburgerToggled, \* hamburger.classList.contains('toggled')
    ariaExpanded,     \* hamburger aria-expanded attribute
    hamburgerHTML,    \* hamburger.innerHTML
    ariaLabel,        \* hamburger aria-label attribute
    activeLinks,      \* indices of anchors carrying class 'active'
    current,          \* history: the section that entered the band last
    visible,          \* the animated elements carrying class 'visible'
    seen,             \* history: per element, isIntersecting of its entries
    flags,            \* history: per element, 'visible' after each entry
    viewportHeight,   \* height of the viewport
    rootBounds,       \* root rectangle of activeLinkObserver (top, bottom)
    dataTheme,        \* <html data-theme>
    stored,           \* localStorage['portfolio-theme']
    storedAtLoad,     \* history: value of stored when the page loaded
    themeAtInit,      \* history: data-theme right after initializeTheme
    toggles,          \* history: theme-toggle clicks handled so far
    last              \* history: the handler that ran last and its effects

vars == <<script, hasSidebar, hasHamburger, hasThemeToggle, hasIO, osPreference,
          anchors, pc, wired, logged, sidebarActive, hamburgerToggled,
          ariaExpanded, hamburgerHTML, ariaLabel, activeLinks, dataTheme,
          stored, storedAtLoad, themeAtInit, toggles, last, current, visible,
          seen, flags, viewportHeight, rootBounds>>

pageVars == <<script, hasSidebar, hasHamburger, hasThemeToggle, hasIO,
              osPreference, anchors, storedAtLoad>>
menuVars == <<sidebarActive, hamburgerToggled, ariaExpanded, hamburgerHTML,
              ariaLabel>>
themeVars == <<dataTheme, stored, themeAtInit, toggles>>
animationVars == <<visible, seen, flags>>
viewVars == <<viewportHeight, rootBounds>>

\* ------------------------------------------------------------ page markup
Link(href, inSidebar, inNav) ==
    [href |-> href, inSidebar |-> inSidebar, inNav |-> inNav]

\* the links of '.sidebar nav', in document order
NavLayouts ==
    UNION {[1..n -> NavFragments] : n \in 0..MaxNav}

\* hash links of the sidebar outside its nav, then those of the page body
OtherLinks(sidebar) ==
    << Link("hero", sidebar, FALSE),
       Link("about", FALSE, FALSE),
       Link("nowhere", FALSE, FALSE) >>

AnchorLinks(nav, sidebar) ==
    [i \in 1..Len(nav) |-> Link(nav[i], TRUE, TRUE)] \o OtherLinks(sidebar)

\* navLinks = document.querySelectorAll('.sidebar nav a')
navLinks == {i \in 1..Len(anchors) : anchors[i].inNav}

NoEvent ==
    [ev |-> "none", link |-> 0, wasOpen |-> FALSE, scrolled |-> FALSE,
     threw |-> FALSE, entered |-> Null, firstEntered |-> Null,
     exited |-> Null, themeBefore |-> Null]

\* ------------------------------------------------------------ conversions
\* setAttribute(name, boolean) stores String(boolean)
BoolToString(b) == IF b THEN "true" ELSE "false"

\* JavaScript truthiness of a string-or-null
Truthy(v) == v # Null /\ v # ""

\* ------------------------------------------------------------------ theme
\* mutant: the attribute is set but the value is not persisted
applyThemeNoPersist(theme) == [attr |-> theme, item |-> stored]

\* applyTheme: the values the attribute and the storage key hold afterwards
applyTheme(theme) == [attr |-> theme, item |-> theme]

\* window.matchMedia && window.matchMedia('(prefers-color-scheme: dark)').matches
prefersDark(os) == os # "unsupported" /\ os = "dark"

\* mutant: the OS preference is consulted before the saved theme
initializeThemeOsFirst(savedTheme, os) ==
    IF prefersDark(os) THEN applyTheme("dark")
    ELSE IF Truthy(savedTheme) THEN applyTheme(savedTheme)
    ELSE applyTheme("light")

\* mutant: the saved theme is never consulted
initializeThemeIgnoreSaved(savedTheme, os) ==
    IF prefersDark(os) THEN applyTheme("dark") ELSE applyTheme("light")

initializeTheme(savedTheme, os) ==
    IF Truthy(savedTheme) THEN applyTheme(savedTheme)
    ELSE IF prefersDark(os) THEN applyTheme("dark")
    ELSE applyTheme("light")

\* mutant: the handler tests for 'dark' instead of 'light'
newThemeTestsDark(attr) ==
    LET currentTheme == IF Truthy(attr) THEN attr ELSE "light"
    IN  IF currentTheme = "dark" THEN "light" ELSE "dark"

\* the theme the toggle handler applies, from the data-theme attribute
newTheme(attr) ==
    LET currentTheme == IF Truthy(attr) THEN attr ELSE "light"
    IN  IF currentTheme = "light" THEN "dark" ELSE "light"

\* ------------------------------------------------------------------- Init
Init ==
    /\ script \in {MainJs, LegacyJs}
    /\ hasSidebar \in BOOLEAN
    /\ hasHamburger \in BOOLEAN
    /\ hasThemeToggle \in BOOLEAN
    /\ hasIO \in BOOLEAN
    /\ osPreference \in OsPreferences
    /\ \E nav \in NavLayouts :
          anchors = AnchorLinks(IF hasSidebar THEN nav ELSE <<>>, hasSidebar)
    /\ pc = "loading"
    /\ wired = {}
    /\ logged = FALSE
    /\ sidebarActive = FALSE
    /\ hamburgerToggled = FALSE
    /\ ariaExpanded = "false"
    /\ hamburgerHTML = HamburgerIcon
    /\ ariaLabel = "Toggle navigation"
    /\ activeLinks \in {{}} \cup {{i} : i \in navLinks}
    /\ dataTheme \in MarkupThemes
    /\ stored \in StoredAtLoad
    /\ storedAtLoad = stored
    /\ themeAtInit = Null
    /\ toggles = 0
    /\ last = NoEvent
    /\ current = Null
    /\ visible = {}
    /\ seen = [e \in AnimatedElements |-> <<>>]
    /\ flags = [e \in AnimatedElements |-> <<>>]
    /\ viewportHeight = 10 * MaxHeightSteps
    /\ rootBounds = [top |-> 0, bottom |-> viewportHeight]

\* ------------------------------------------------------- DOMContentLoaded
\* the steps of the handler of src/assets/js/main.js, in source order
InitSteps ==
    <<"hamburger", "anchors", "scroll", "activeLink", "theme", "copyright",
      "initializeTheme">>

\* the existence check that guards a step
stepGuard(step) ==
    IF step = "hamburger" THEN hasHamburger /\ hasSidebar
    ELSE IF step = "theme" THEN hasThemeToggle
    ELSE TRUE

\* index of the step that throws, 0 when none does: new IntersectionObserver
\* raises a ReferenceError where the browser lacks it
failingStep == IF hasIO THEN 0 ELSE 3

\* mutant: a failing step is skipped and the later steps still run
wiredAfterLoadIsolated ==
    {InitSteps[j] : j \in {k \in 1..Len(InitSteps) :
                              k # failingStep /\ stepGuard(InitSteps[k])}}

\* the steps that have run when the handler returns: the try block stops at
\* the failing step, the catch logs, and nothing after it runs
wiredAfterLoad ==
    {InitSteps[j] : j \in {k \in 1..Len(InitSteps) :
                              /\ failingStep = 0 \/ k < failingStep
                              /\ stepGuard(InitSteps[k])}}

\* rootMargin: '-30% 0px -70% 0px' (top, right, bottom, left; in percent)
rootMargin == [top |-> -30, right |-> 0, bottom |-> -70, left |-> 0]

\* the root rectangle of an observer on a viewport of height h: each edge
\* of the viewport moved outwards by its margin
activationZone(h) ==
    [top |-> 0 - (rootMargin.top * h) \div 100,
     bottom |-> h + (rootMargin.bottom * h) \div 100]

DOMContentLoaded ==
    /\ pc = "loading"
    /\ script = MainJs
    /\ pc' = "ready"
    /\ wired' = wiredAfterLoad
    /\ logged' = (failingStep # 0)
    /\ IF "initializeTheme" \in wired'
       THEN LET t == initializeTheme(stored, osPreference)
            IN  /\ dataTheme' = t.attr
                /\ stored' = t.item
                /\ themeAtInit' = t.attr
                /\ UNCHANGED toggles
       ELSE UNCHANGED themeVars
    /\ rootBounds' = IF "activeLink" \in wired'
                     THEN activationZone(viewportHeight) ELSE rootBounds
    /\ last' = [NoEvent EXCEPT !.ev = "load"]
    /\ UNCHANGED <<pageVars, menuVars, activeLinks, current, animationVars,
                   viewportHeight>>

\* The handler of src/assets/main.js
LegacyDOMContentLoaded ==
    /\ pc = "loading"
    /\ script = LegacyJs
    /\ pc' = "ready"
    /\ wired' = IF hasHamburger /\ hasSidebar THEN {"hamburger"} ELSE {}
    /\ last' = [NoEvent EXCEPT !.ev = "load"]
    /\ UNCHANGED <<pageVars, menuVars, themeVars, activeLinks, logged, current,
                   animationVars, viewVars>>

\* ------------------------------------------------------------- hamburger
HamburgerClick ==
    /\ pc = "ready"
    /\ script = MainJs
    /\ "hamburger" \in wired
    /\ LET isExpanded == ~sidebarActive
       IN  /\ sidebarActive' = isExpanded
           /\ hamburgerToggled' = ~hamburgerToggled
           /\ ariaExpanded' = BoolToString(isExpanded)
           /\ hamburgerHTML' = IF isExpanded THEN TimesIcon ELSE HamburgerIcon
           /\ ariaLabel' = IF isExpanded THEN "Close navigation"
                           ELSE "Toggle navigation"
    /\ last' = [NoEvent EXCEPT !.ev = "hamburger", !.wasOpen = sidebarActive]
    /\ UNCHANGED <<pageVars, themeVars, pc, wired, logged, activeLinks,
                   current, animationVars, viewVars>>

LegacyHamburgerClick ==
    /\ pc = "ready"
    /\ script = LegacyJs
    /\ "hamburger" \in wired
    /\ LET isExpanded == ~sidebarActive
       IN  /\ sidebarActive' = isExpanded
           /\ ariaExpanded' = BoolToString(isExpanded)
    /\ last' = [NoEvent EXCEPT !.ev = "hamburger", !.wasOpen = sidebarActive]
    /\ UNCHANGED <<pageVars, themeVars, pc, wired, logged, activeLinks,
                   hamburgerToggled, hamburgerHTML, ariaLabel, current,
                   animationVars, viewVars>>

\* ---------------------------------------------------------- anchor click
\* document.querySelector(targetId) finds an element iff one has that id
targetElement(link) == link.href \in ElementIds

\* mutant: only the links of the nav close the panel
closesSidebarNavOnly(link) == sidebarActive /\ link.inNav

\* sidebar.classList.contains('active') && link.closest('.sidebar')
closesSidebar(link) == sidebarActive /\ link.inSidebar

\* mutant: the hamburger keeps its 'toggled' class
resetHamburgerKeepsToggled ==
    [toggled |-> hamburgerToggled, expanded |-> "false",
     html |-> HamburgerIcon, label |-> "Toggle navigation"]

\* the hamburger after the reset of lines 77-81
resetHamburger ==
    [toggled |-> FALSE, expanded |-> "false",
     html |-> HamburgerIcon, label |-> "Toggle navigation"]

\* The click handler of link i.  sidebar.classList throws a TypeError when
\* sidebar is null, hamburger.setAttribute when hamburger is null.
AnchorClick(i) ==
    /\ pc = "ready"
    /\ "anchors" \in wired
    /\ LET link == anchors[i]
           scrolled == targetElement(link)
           ev == [NoEvent EXCEPT !.ev = "anchor", !.link = i,
                                 !.wasOpen = sidebarActive,
                                 !.scrolled = scrolled]
       IN  IF ~hasSidebar
           THEN /\ last' = [ev EXCEPT !.threw = TRUE]
                /\ UNCHANGED menuVars
           ELSE IF closesSidebar(link)
           THEN /\ sidebarActive' = FALSE
                /\ IF ~hasHamburger
                   THEN /\ last' = [ev EXCEPT !.threw = TRUE]
                        /\ UNCHANGED <<hamburgerToggled, ariaExpanded,
                                       hamburgerHTML, ariaLabel>>
                   ELSE /\ last' = ev
                        /\ ariaExpanded' = resetHamburger.expanded
                        /\ hamburgerToggled' = resetHamburger.toggled
                        /\ hamburgerHTML' = resetHamburger.html
                        /\ ariaLabel' = resetHamburger.label
           ELSE /\ last' = ev
                /\ UNCHANGED menuVars
    /\ UNCHANGED <<pageVars, themeVars, pc, wired, logged, activeLinks,
                   current, animationVars, viewVars>>

\* ----------------------------------------------------- activeLinkObserver
IntersectionEntries ==
    [target : SectionIds, isIntersecting : BOOLEAN]

EntryBatches ==
    UNION {[1..n -> IntersectionEntries] : n \in 1..MaxEntries}

\* document.querySelector(`.sidebar nav a[href="#${id}"]`): the first match
\* in document order, 0 when there is none
activeLink(id) ==
    LET matches == {i \in navLinks : anchors[i].href = id}
    IN  IF matches = {} THEN 0
        ELSE CHOOSE i \in matches : \A j \in matches : i <= j

\* mutant: the links marked before are not cleared
highlightEntryNoClear(entry, active) ==
    IF entry.isIntersecting
    THEN LET l == activeLink(entry.target)
         IN  IF l # 0 THEN active \cup {l} ELSE active
    ELSE active

\* mutant: every link with the fragment is marked, not the first one
highlightEntryMarksAll(entry, active) ==
    IF entry.isIntersecting
    THEN (active \ navLinks)
         \cup {i \in navLinks : anchors[i].href = entry.target}
    ELSE active

\* mutant: a section that leaves the band loses its marker
highlightEntryClearsOnExit(entry, active) ==
    LET l == activeLink(entry.target)
    IN  IF entry.isIntersecting
        THEN IF l # 0 THEN (active \ navLinks) \cup {l} ELSE active \ navLinks
        ELSE active \ {l}

\* the body of entries.forEach for one entry, on the set of active links
highlightEntry(entry, active) ==
    IF entry.isIntersecting
    THEN LET cleared == active \ navLinks
             l == activeLink(entry.target)
         IN  IF l # 0 THEN cleared \cup {l} ELSE cleared
    ELSE active

\* mutant: the entries are processed from the last to the first
RECURSIVE highlightEntriesReversed(_, _)
highlightEntriesReversed(entries, active) ==
    IF entries = <<>> THEN active
    ELSE highlightEntriesReversed(
             SubSeq(entries, 1, Len(entries) - 1),
             highlightEntry(entries[Len(entries)], active))

RECURSIVE highlightEntries(_, _)
highlightEntries(entries, active) ==
    IF entries = <<>> THEN active
    ELSE highlightEntries(Tail(entries), highlightEntry(Head(entries), active))

\* the target of the last intersecting entry of a batch, Null when none
RECURSIVE lastEntered(_)
lastEntered(entries) ==
    IF entries = <<>> THEN Null
    ELSE LET e == entries[Len(entries)]
         IN  IF e.isIntersecting THEN e.target
             ELSE lastEntered(SubSeq(entries, 1, Len(entries) - 1))

\* the target of the first intersecting entry of a batch, Null when none
RECURSIVE firstEntered(_)
firstEntered(entries) ==
    IF entries = <<>> THEN Null
    ELSE IF Head(entries).isIntersecting THEN Head(entries).target
    ELSE firstEntered(Tail(entries))

\* the target of the last entry of a batch that is not intersecting
RECURSIVE lastExited(_)
lastExited(entries) ==
    IF entries = <<>> THEN Null
    ELSE LET e == entries[Len(entries)]
         IN  IF ~e.isIntersecting THEN e.target
             ELSE lastExited(SubSeq(entries, 1, Len(entries) - 1))

ActiveLinkCallback(entries) ==
    /\ pc = "ready"
    /\ "activeLink" \in wired
    /\ activeLinks' = highlightEntries(entries, activeLinks)
    /\ current' = IF lastEntered(entries) # Null THEN lastEntered(entries)
                  ELSE current
    \* exited is recorded for a callback in which no section entered
    /\ last' = [NoEvent EXCEPT !.ev = "intersection",
                               !.entered = lastEntered(entries),
                               !.firstEntered = firstEntered(entries),
                               !.exited = IF lastEntered(entries) = Null
                                          THEN lastExited(entries)
                                          ELSE Null]
    /\ UNCHANGED <<pageVars, menuVars, themeVars, pc, wired, logged,
                   animationVars, viewVars>>

\* ----------------------------------------------------------- theme toggle
ThemeToggleClick ==
    /\ pc = "ready"
    /\ "theme" \in wired
    /\ toggles < MaxToggles
    /\ LET t == applyTheme(newTheme(dataTheme))
       IN  /\ dataTheme' = t.attr
           /\ stored' = t.item
    /\ toggles' = toggles + 1
    /\ last' = [NoEvent EXCEPT !.ev = "themeToggle", !.themeBefore = dataTheme]
    /\ UNCHANGED <<pageVars, menuVars, pc, wired, logged, activeLinks,
                   themeAtInit, current, animationVars, viewVars>>

\* --------------------------------------------------------- scrollObserver
AnimationEntries ==
    [target : AnimatedElements, isIntersecting : BOOLEAN]

AnimationBatches ==
    UNION {[1..n -> AnimationEntries] : n \in 1..MaxEntries}

\* mutant: the animation plays once, 'visible' is never removed
animateEntryOnce(entry, vis) ==
    IF entry.isIntersecting THEN vis \cup {entry.target} ELSE vis

\* the body of entries.forEach for one entry, on the set of visible elements
animateEntry(entry, vis) ==
    IF entry.isIntersecting
    THEN vis \cup {entry.target}
    ELSE vis \ {entry.target}

\* entries.forEach over a batch; st holds the visible elements and, per
\* element, what its entries reported and the flag observed after each
RECURSIVE animateEntries(_, _)
animateEntries(entries, st) ==
    IF entries = <<>> THEN st
    ELSE LET entry == Head(entries)
             t == entry.target
             vis == animateEntry(entry, st.visible)
         IN  animateEntries(Tail(entries),
                 [visible |-> vis,
                  seen |-> [st.seen EXCEPT
                               ![t] = Append(@, entry.isIntersecting)],
                  flags |-> [st.flags EXCEPT ![t] = Append(@, t \in vis)]])

ScrollCallback(entries) ==
    /\ pc = "ready"
    /\ "scroll" \in wired
    /\ LET st == animateEntries(entries,
                     [visible |-> visible, seen |-> seen, flags |-> flags])
       IN  /\ \A e \in AnimatedElements : Len(st.seen[e]) <= MaxScrollEvents
           /\ visible' = st.visible
           /\ seen' = st.seen
           /\ flags' = st.flags
    /\ last' = [NoEvent EXCEPT !.ev = "scroll"]
    /\ UNCHANGED <<pageVars, menuVars, themeVars, pc, wired, logged,
                   activeLinks, current, viewVars>>

\* ----------------------------------------------------------------- resize
\* The window is resized to height h; the browser recomputes the root
\* rectangle of activeLinkObserver from its rootMargin.
Resize(h) ==
    /\ pc = "ready"
    /\ h # viewportHeight
    /\ viewportHeight' = h
    /\ rootBounds' = IF "activeLink" \in wired THEN activationZone(h)
                     ELSE [top |-> 0, bottom |-> h]
    /\ last' = [NoEvent EXCEPT !.ev = "resize"]
    /\ UNCHANGED <<pageVars, menuVars, themeVars, pc, wired, logged,
                   activeLinks, current, animationVars>>

Next ==
    \/ DOMContentLoaded
    \/ LegacyDOMContentLoaded
    \/ HamburgerClick
    \/ LegacyHamburgerClick
    \/ \E i \in 1..Len(anchors) : AnchorClick(i)
    \/ \E entries \in EntryBatches : ActiveLinkCallback(entries)
    \/ ThemeToggleClick

Spec == Init /\ [][Next]_vars

\* The scroll animation and the geometry of the activation zone touch only
\* animationVars and viewVars, which no handler of Next reads or writes.
\* They are explored on the page that has every element and an empty
\* storage.
InitViewport ==
    /\ Init
    /\ script = MainJs
    /\ hasSidebar /\ hasHamburger /\ hasThemeToggle
    /\ osPreference = "dark"
    /\ Len(anchors) = Len(OtherLinks(TRUE)) + 1
    /\ anchors[1].href = "about"
    /\ activeLinks = {}
    /\ dataTheme = Null
    /\ stored = Null

NextViewport ==
    \/ DOMContentLoaded
    \/ \E entries \in AnimationBatches : ScrollCallback(entries)
    \/ \E h \in ViewportHeights : Resize(h)

SpecViewport == InitViewport /\ [][NextViewport]_vars

TypeOK ==
    /\ pc \in {"loading", "ready"}
    /\ sidebarActive \in BOOLEAN
    /\ hamburgerToggled \in BOOLEAN
    /\ activeLinks \subseteq navLinks
    /\ toggles \in 0..MaxToggles

\* ================================================================= claims
\* initializeTheme() at the end of the DOMContentLoaded handler has run
themeInitialized == "initializeTheme" \in wired

ValidThemes == {"light", "dark"}

\* C1: once the theme has been initialized at page load, and after every
\* theme-toggle click, the value stored under 'portfolio-theme' equals the
\* data-theme attribute of the document.
C1_ThemeInSync ==
    themeInitialized => stored = dataTheme

C1_Witness ==
    /\ themeInitialized
    /\ last.ev = "themeToggle"
    /\ toggles = 2
    /\ stored = "dark"
    /\ dataTheme = "dark"

\* the complement of a theme state; Null where the state has none
Complement(theme) ==
    IF theme = "light" THEN "dark"
    ELSE IF theme = "dark" THEN "light"
    ELSE Null

\* C2: after N theme-toggle clicks from the initialized state S0 the theme
\* is S0 when N is even and the complement of S0 when N is odd.
C2_ToggleParity ==
    themeInitialized =>
        dataTheme = IF toggles % 2 = 0 THEN themeAtInit
                    ELSE Complement(themeAtInit)

\* C3 as stated: a persisted value that is present is applied verbatim
\* whatever the OS prefers; with none present the theme is 'dark' when the
\* OS prefers dark and 'light' otherwise.
C3_AnyPersistedValueVerbatim ==
    (themeInitialized /\ toggles = 0) =>
        /\ storedAtLoad # Null => dataTheme = storedAtLoad
        /\ (storedAtLoad = Null /\ osPreference = "dark") => dataTheme = "dark"
        /\ (storedAtLoad = Null /\ osPreference # "dark") => dataTheme = "light"

\* C3 amended: a non-empty persisted value is applied verbatim whatever the
\* OS prefers; with no persisted value or an empty one the theme is 'dark'
\* when the OS prefers dark and 'light' when it does not or when
\* matchMedia is unsupported.
C3_InitialTheme ==
    (themeInitialized /\ toggles = 0) =>
        /\ storedAtLoad \notin {Null, ""} => dataTheme = storedAtLoad
        /\ (storedAtLoad \in {Null, ""} /\ osPreference = "dark")
               => dataTheme = "dark"
        /\ (storedAtLoad \in {Null, ""} /\ osPreference # "dark")
               => dataTheme = "light"

C3_Witness ==
    /\ themeInitialized
    /\ toggles = 0
    /\ storedAtLoad = "light"
    /\ osPreference = "dark"
    /\ dataTheme = "light"

\* C4: after initialization the value stored under 'portfolio-theme' is
\* 'light' or 'dark', whatever value was in storage when the page loaded.
C4_StoredValid ==
    themeInitialized => stored \in ValidThemes

\* C5 as stated: only a theme-toggle click changes the stored value (the
\* page-load initialization does not), and no step deletes it.
C5_OnlyToggleWrites ==
    [][/\ stored' # stored => last'.ev = "themeToggle"
       /\ stored # Null => stored' # Null]_vars

\* C5 amended: the stored value is changed only by a theme-toggle click or
\* by the page-load initialization when it finds no value or an empty one,
\* which then stores 'dark' or 'light'; an initialization that finds a
\* non-empty value leaves it as it is, and no step deletes the value.
C5_StoredWrites ==
    [][/\ stored' # stored =>
              \/ last'.ev = "themeToggle"
              \/ /\ last'.ev = "load"
                 /\ stored \in {Null, ""}
                 /\ stored' \in ValidThemes
       /\ stored # Null => stored' # Null]_vars

C5_Witness ==
    /\ last.ev = "load"
    /\ themeInitialized
    /\ storedAtLoad = Null
    /\ stored = "dark"

\* the set of nav links whose fragment is a given section id
LinksTo(id) == {i \in navLinks : anchors[i].href = id}

\* the last handler was an intersection callback in which a section entered
SectionEntered == last.ev = "intersection" /\ last.entered # Null

\* C6 as stated: after an intersection callback in which a tracked section
\* entered the band, exactly one nav link is active and its fragment is the
\* id of that section, for every tracked section.
C6_AlwaysOneActive ==
    SectionEntered =>
        /\ Cardinality(activeLinks) = 1
        /\ \A i \in activeLinks : anchors[i].href = last.entered

\* C6 amended: after such a callback, if the sidebar nav has a link whose
\* fragment is the id of the section that entered last, exactly one nav
\* link is active: the first such link in document order; if the nav has
\* no link for that section, no nav link is active.
C6_ActiveLinkFollowsSection ==
    SectionEntered =>
        IF LinksTo(last.entered) # {}
        THEN /\ Cardinality(activeLinks) = 1
             /\ \A i \in activeLinks :
                   /\ anchors[i].href = last.entered
                   /\ \A j \in LinksTo(last.entered) : i <= j
        ELSE activeLinks = {}

C6_Witness ==
    /\ SectionEntered
    /\ last.entered = "resume"
    /\ Cardinality(activeLinks) = 1
    /\ \E i \in activeLinks : anchors[i].href = "resume"

\* the last handler was the click handler of a hash link
AnchorClicked == last.ev = "anchor"

\* C7: a click on a hash link whose fragment matches no element scrolls
\* nothing and lets no exception out of the handler, with or without the
\* sidebar and hamburger elements.
C7_MissingTargetSilent ==
    (AnchorClicked /\ anchors[last.link].href \notin ElementIds) =>
        /\ ~last.scrolled
        /\ ~last.threw

\* the panel is closed and the trigger is in its default state
MenuReset ==
    /\ ~sidebarActive
    /\ ~hamburgerToggled
    /\ ariaExpanded = "false"
    /\ hamburgerHTML = HamburgerIcon
    /\ ariaLabel = "Toggle navigation"

\* the panel is open and the trigger shows it
MenuOpen ==
    /\ sidebarActive
    /\ hamburgerToggled
    /\ ariaExpanded = "true"
    /\ hamburgerHTML = TimesIcon
    /\ ariaLabel = "Close navigation"

C10_MenuReflectionsAgree ==
    pc = "ready" =>
        /\ last.ev = "hamburger" => sidebarActive # last.wasOpen
        /\ sidebarActive <=> hamburgerToggled
        /\ sidebarActive <=> ariaExpanded = "true"

\* the same on the pages that load assets/js/main.js
MainJsMenuReflectionsAgree ==
    script = MainJs => C10_MenuReflectionsAgree

\* C11: for every animated element the 'visible' flag observed after each
\* of its intersection entries equals what that entry reported (entry:
\* true, exit: false, re-entry: true), so the flag is that of the element's
\* most recent entry, whatever entries other elements received.
C11_VisibleFollowsEntries ==
    \A e \in AnimatedElements :
        /\ flags[e] = seen[e]
        /\ IF seen[e] = <<>> THEN e \notin visible
           ELSE e \in visible <=> seen[e][Len(seen[e])]

C11_Witness ==
    /\ seen["card1"] = <<TRUE, FALSE, TRUE>>
    /\ flags["card1"] = <<TRUE, FALSE, TRUE>>
    /\ "card1" \in visible
    /\ seen["card2"] = <<TRUE, FALSE>>
    /\ "card2" \notin visible

\* the features that do not depend on an element of the page
UnguardedSteps == {"anchors", "scroll", "activeLink", "copyright",
                   "initializeTheme"}

\* C12: an exception thrown by a step of the initialization is caught and
\* logged and does not leave the DOMContentLoaded handler; the features
\* wired before the failing step stay wired, and every later one, the theme
\* initialization included, is left unwired.
C12_FailureStopsWiring ==
    (pc = "ready" /\ script = MainJs) =>
        /\ last.ev = "load" => ~last.threw
        /\ logged <=> ~hasIO
        /\ "hamburger" \in wired <=> (hasHamburger /\ hasSidebar)
        /\ "anchors" \in wired
        /\ IF hasIO
           THEN /\ UnguardedSteps \subseteq wired
                /\ "theme" \in wired <=> hasThemeToggle
           ELSE /\ wired \subseteq {"hamburger", "anchors"}
                /\ stored = storedAtLoad
                /\ dataTheme \in MarkupThemes
                /\ toggles = 0

C12_Witness ==
    /\ pc = "ready"
    /\ script = MainJs
    /\ ~hasIO
    /\ hasThemeToggle
    /\ logged
    /\ wired = {"hamburger", "anchors"}
    /\ last.ev = "hamburger"
    /\ stored = "blue"
    /\ dataTheme = Null

\* C13: once a section has qualified, every active nav link is a link to
\* the section of the last qualifying entry, in the same callback or in a
\* later one, and that section's link is marked when the nav has one;
\* earlier qualifying entries leave no marker.
C13_LastEventWins ==
    current # Null =>
        /\ \A i \in activeLinks : anchors[i].href = current
        /\ LinksTo(current) # {} => activeLinks # {}

C13_Witness ==
    /\ last.ev = "intersection"
    /\ last.firstEntered = "about"
    /\ last.entered = "resume"
    /\ LinksTo("about") # {}
    /\ activeLinks # {}
    /\ \A i \in activeLinks : anchors[i].href = "resume"

\* C14: the root rectangle of the active-section observer spans from 30%
\* to 70% of the viewport height, a band 40% of the viewport high.
C14_BandFrom30To70 ==
    "activeLink" \in wired =>
        /\ 10 * rootBounds.top = 3 * viewportHeight
        /\ 10 * rootBounds.bottom = 7 * viewportHeight
        /\ 10 * (rootBounds.bottom - rootBounds.top) = 4 * viewportHeight

\* what the root rectangle is: the line at 30% of the viewport height
ZoneIsLineAt30 ==
    "activeLink" \in wired =>
        /\ 10 * rootBounds.top = 3 * viewportHeight
        /\ rootBounds.bottom = rootBounds.top

\* C15: at most one nav link carries 'active' in every reachable state of
\* a page whose markup has at most one active link.
C15_AtMostOneActive ==
    Cardinality(activeLinks) <= 1

C15_Witness ==
    /\ SectionEntered
    /\ Cardinality(navLinks) = 2
    /\ \A i, j \in navLinks : anchors[i].href = anchors[j].href
    /\ Cardinality(activeLinks) = 1

\* C16: an intersection callback in which no section enters the band (its
\* entries all report a section leaving) changes no nav link, so the link
\* of the section that entered last stays marked.
C16_ExitChangesNoLink ==
    [][(last'.ev = "intersection" /\ last'.entered = Null)
           => activeLinks' = activeLinks]_vars

C16_Witness ==
    /\ last.ev = "intersection"
    /\ last.entered = Null
    /\ last.exited = "about"
    /\ current = "about"
    /\ \E i \in activeLinks : anchors[i].href = "about"

\* C17: after a theme-toggle click the attribute and the stored value are
\* 'light' or 'dark': 'dark' when the attribute was 'light' or missing,
\* 'light' for any other value, an unrecognized stored string included.
C17_ToggleNormalizes ==
    last.ev = "themeToggle" =>
        /\ dataTheme \in ValidThemes
        /\ stored \in ValidThemes
        /\ dataTheme = IF last.themeBefore \in {"light", Null} THEN "dark"
                       ELSE "light"

C17_Witness ==
    /\ last.ev = "themeToggle"
    /\ last.themeBefore = "blue"
    /\ dataTheme = "light"
    /\ stored = "light"
====
